---------------------------- MODULE Spec2Model ----------------------------
(***************************************************************************)
(* A model of the Environment of ackulator (src/env.rs): the unit algebra  *)
(* (base_unit_of, base_conversion_ratio_of, make_scalar), the formatters   *)
(* (format_base_unit, format_unit, format_scalar_detailed) and the global  *)
(* symbol table.                                                           *)
(*                                                                         *)
(* Representation.                                                         *)
(*  - A String is a sequence of one-character strings, so that             *)
(*    concatenation (\o), length and indexing are those of the text.       *)
(*  - An f64 is a binary floating-point number [neg, m, e] of value        *)
(*    (-1)^neg * m * 2^e with a MantBits-bit significand, rounded to       *)
(*    nearest, ties to even, by every operation (f64 has 53 bits; the      *)
(*    rounding rule is the one of IEEE 754).  The inputs are small enough  *)
(*    that no operation overflows or underflows, so infinities, NaN and    *)
(*    subnormals do not occur.                                             *)
(*  - A CompositeUnit / CompositeUnitClass is its `components` map given   *)
(*    as the sequence of <<identity, power>> pairs in the order in which   *)
(*    `components.iter()` yields them; identities are pairwise distinct.   *)
(*  - A call that panics (assert!, a fatal failure) returns Panic and      *)
(*    ends the program: `panicked` becomes TRUE and no action is enabled.  *)
(***************************************************************************)
EXTENDS Integers, Sequences, FiniteSets, TLC

(***************************************************************************)
(* Bounds of the model.                                                    *)
(***************************************************************************)
\* significand width of the modelled floating-point format
MantBits == 3
\* largest |power| of a component of an input unit
MaxPower == 2
\* largest number of components of an input unit
MaxComponents == 2
\* largest precision argument
MaxPrecision == 3

(***************************************************************************)
(* Strings.                                                                *)
(***************************************************************************)
Digits == <<"0", "1", "2", "3", "4", "5", "6", "7", "8", "9">>

RECURSIVE NatStr(_)
\* Display of a non-negative integer: its decimal digits.
NatStr(n) ==
    IF n < 10 THEN <<Digits[n + 1]>>
    ELSE NatStr(n \div 10) \o <<Digits[(n % 10) + 1]>>

\* Display of an i32 / isize ("{}"): a minus sign, then the digits.
IntStr(n) == IF n < 0 THEN <<"-">> \o NatStr(-n) ELSE NatStr(n)

(***************************************************************************)
(* Floating point.                                                         *)
(***************************************************************************)
RECURSIVE Pow2(_)
Pow2(n) == IF n = 0 THEN 1 ELSE 2 * Pow2(n - 1)

RECURSIVE Pow10(_)
Pow10(n) == IF n = 0 THEN 1 ELSE 10 * Pow10(n - 1)

RECURSIVE BitLen(_)
BitLen(m) == IF m = 0 THEN 0 ELSE 1 + BitLen(m \div 2)

\* The float nearest to (-1)^neg * m * 2^e (plus a nonzero fraction below the
\* last bit of m when `sticky`), ties to even.
RoundFloat(neg, m, e, sticky) ==
    IF m = 0 THEN [neg |-> neg, m |-> 0, e |-> 0]
    ELSE LET s == BitLen(m) - MantBits IN
         IF s <= 0 THEN [neg |-> neg, m |-> m * Pow2(-s), e |-> e + s]
         ELSE LET q    == m \div Pow2(s)
                  rem  == m % Pow2(s)
                  half == Pow2(s - 1)
                  up   == \/ rem > half
                          \/ rem = half /\ (sticky \/ q % 2 = 1)
                  q2   == IF up THEN q + 1 ELSE q
              IN IF q2 = Pow2(MantBits)
                 THEN [neg |-> neg, m |-> Pow2(MantBits - 1), e |-> e + s + 1]
                 ELSE [neg |-> neg, m |-> q2, e |-> e + s]

\* The f64 literal n * 2^e.
Flt(n, e) == RoundFloat(n < 0, IF n < 0 THEN -n ELSE n, e, FALSE)

FOne == Flt(1, 0)

\* f64 `*`
FMul(x, y) == RoundFloat(x.neg # y.neg, x.m * y.m, x.e + y.e, FALSE)

\* f64 `/` (the divisor is never zero here: every ratio is a product of
\* powers of positive base ratios)
FDiv(x, y) ==
    IF x.m = 0 THEN [neg |-> x.neg # y.neg, m |-> 0, e |-> 0]
    ELSE LET n == x.m * Pow2(MantBits + 2)
         IN RoundFloat(x.neg # y.neg, n \div y.m,
                       x.e - y.e - (MantBits + 2), n % y.m # 0)

RECURSIVE PowiLoop(_, _, _)
\* The square-and-multiply loop of f64::powi (the __powidf2 intrinsic):
\* loop { if pow & 1 != 0 { mul *= a }  pow >>= 1;  if pow == 0 { break }  a *= a }
PowiLoop(a, pow, mul) ==
    LET mul2 == IF pow % 2 = 1 THEN FMul(mul, a) ELSE mul
    IN IF pow \div 2 = 0 THEN mul2
       ELSE PowiLoop(FMul(a, a), pow \div 2, mul2)

\* f64::powi(a, b): a^|b| by repeated squaring, inverted for a negative b.
Powi(a, b) ==
    IF b < 0 THEN FDiv(FOne, PowiLoop(a, -b, FOne)) ELSE PowiLoop(a, b, FOne)

RECURSIVE DecExp(_, _)
\* The decimal exponent d of num/den > 0: 10^d <= num/den < 10^(d+1).
DecExp(num, den) ==
    IF num < den THEN DecExp(num * 10, den) - 1
    ELSE IF num >= 10 * den THEN DecExp(num, den * 10) + 1
    ELSE 0

RECURSIVE GenDigits(_, _, _, _)
\* k more decimal digits of rem/den appended to the digits acc:
\* <<the digits as a number, the remainder>>.
GenDigits(acc, rem, den, k) ==
    IF k = 0 THEN <<acc, rem>>
    ELSE GenDigits(acc * 10 + ((rem * 10) \div den), (rem * 10) % den, den, k - 1)

\* LowerExp with a precision ("{:.N$e}") of a float: one digit, a point and
\* N digits when N > 0, "e", the decimal exponent; the digits are those of
\* the exact value rounded to N + 1 significant digits, ties to even.
LowerExp(x, N) ==
    LET sign == IF x.neg THEN <<"-">> ELSE <<>>
        frac(ds) == IF N = 0 THEN <<>> ELSE <<".">> \o SubSeq(ds, 2, N + 1)
    IN
    IF x.m = 0
    THEN LET ds == [i \in 1..(N + 1) |-> "0"]
         IN sign \o <<"0">> \o frac(ds) \o <<"e", "0">>
    ELSE LET num0 == IF x.e >= 0 THEN x.m * Pow2(x.e) ELSE x.m
             den0 == IF x.e >= 0 THEN 1 ELSE Pow2(-x.e)
             d    == DecExp(num0, den0)
             num  == IF d < 0 THEN num0 * Pow10(-d) ELSE num0
             den  == IF d > 0 THEN den0 * Pow10(d) ELSE den0
             g    == GenDigits(num \div den, num % den, den, N)
             up   == \/ 2 * g[2] > den
                     \/ 2 * g[2] = den /\ g[1] % 2 = 1
             r    == IF up THEN g[1] + 1 ELSE g[1]
             carry == r = Pow10(N + 1)
             ds   == NatStr(IF carry THEN Pow10(N) ELSE r)
             dd   == IF carry THEN d + 1 ELSE d
         IN sign \o <<ds[1]>> \o frac(ds) \o <<"e">> \o IntStr(dd)


(***************************************************************************)
(* State.                                                                  *)
(***************************************************************************)
VARIABLES
    unit_classes,    \* Environment.unit_classes: the stored UnitClasses, by identity
    units,           \* Environment.units: the stored Units, by identity
    global_symbols,  \* Environment.global_symbols: Symbol -> Option<Value>
    op,              \* the method called last
    arg,             \* its arguments
    ret,             \* its result: Ok(value) or Panic
    panicked,        \* a fatal failure has ended the program
    added            \* history: per Symbol, the value of its latest add_global_symbol

vars == <<unit_classes, units, global_symbols, op, arg, ret, panicked, added>>

Ok(v) == [ok |-> TRUE, val |-> v]
Panic == [ok |-> FALSE, val |-> <<>>]

\* Option<T>
None == <<>>
Some(v) == <<v>>

(***************************************************************************)
(* The exponent maps of crate::unit (CompositeUnit, CompositeUnitClass).   *)
(***************************************************************************)
\* CompositeUnitClass::unitless() / CompositeUnit::unitless(): the empty map
unitless == <<>>

Keys(a) == {a[i][1] : i \in DOMAIN a}

\* the exponent of `key` in the map a, 0 when absent
Exponent(a, key) ==
    IF key \in Keys(a)
    THEN (CHOOSE pr \in {a[i] : i \in DOMAIN a} : pr[1] = key)[2]
    ELSE 0

\* The map with a's exponents plus sgn times b's, zero entries dropped;
\* a's keys come first in a's order, then the keys only b has.
Combine(a, b, sgn) ==
    LET onlyB == SelectSeq(b, LAMBDA pr : pr[1] \notin Keys(a))
        all   == a \o onlyB
        sum   == [i \in DOMAIN all |->
                    <<all[i][1], Exponent(a, all[i][1]) + sgn * Exponent(b, all[i][1])>>]
    IN SelectSeq(sum, LAMBDA pr : pr[2] # 0)

\* impl Mul: exponents added per key
multiply(a, b) == Combine(a, b, 1)

\* impl Div: exponents subtracted per key
divide(a, b) == Combine(a, b, -1)

\* PartialEq of two maps: the same keys with the same exponents, in any order
MapOf(a) == {a[i] : i \in DOMAIN a}
SameMap(a, b) == MapOf(a) = MapOf(b)

\* Scalar::new(base_value, base_unit, display_unit, precision)
Scalar_new(base_value, base_unit, display_unit, precision) ==
    [base_value |-> base_value, base_unit |-> base_unit,
     display_unit |-> display_unit, precision |-> precision]

(***************************************************************************)
(* The Environment's methods.                                              *)
(***************************************************************************)
\* StorageHolder<UnitClass>::borrow and StorageHolder<Unit>::borrow
borrow_class(id) == unit_classes[id]
borrow_unit(id) == units[id]

\* "{}^{}" of a name and a power
Term(name, power) == name \o <<"^">> \o IntStr(power)

\* the denominator keeping the sign of the power
DenominatorPowerSigned(power) == power

\* the power written into the denominator
DenominatorPower(power) == -power

RECURSIVE FormatLoop(_, _, _, _, _)
\* The loop of format_base_unit and format_unit over components[i..];
\* names[id] is the name of the item borrowed for id.
FormatLoop(components, i, numerator, denominator, names) ==
    IF i > Len(components)
    THEN Ok(numerator \o <<" ", "/", " ">> \o denominator)
    ELSE LET id    == components[i][1]
             power == components[i][2]
         IN IF power = 0 THEN Panic
            ELSE IF power > 0
            THEN FormatLoop(components, i + 1,
                            numerator \o Term(names[id], power), denominator, names)
            ELSE FormatLoop(components, i + 1, numerator,
                            denominator \o Term(names[id], DenominatorPower(power)),
                            names)

\* self.borrow(*unit_class_id).0
ClassNames == [id \in DOMAIN unit_classes |-> borrow_class(id).name]
\* self.borrow(*unit_id).name
UnitNames == [id \in DOMAIN units |-> borrow_unit(id).name]

format_base_unit(base_unit) == FormatLoop(base_unit, 1, <<>>, <<>>, ClassNames)

format_unit(unit) == FormatLoop(unit, 1, <<>>, <<>>, UnitNames)

\* the positive branch multiplying once, whatever the power
RaisePositiveOnce(complete_base, component_base, power) ==
    multiply(complete_base, component_base)

RECURSIVE RaisePositive(_, _, _)
\* the branch for a positive power:
\* for _ in 0..power { complete_base = complete_base * component_base }
RaisePositive(complete_base, component_base, power) ==
    IF power <= 0 THEN complete_base
    ELSE RaisePositive(multiply(complete_base, component_base), component_base,
                       power - 1)

\* the negative branch multiplying like the positive one
RaiseNegativeMultiplies(complete_base, component_base, power) ==
    RaisePositive(complete_base, component_base, -power)

RECURSIVE RaiseNegative(_, _, _)
\* the branch for a negative power:
\* for _ in 0..-power { complete_base = complete_base / component_base }
RaiseNegative(complete_base, component_base, power) ==
    IF -power <= 0 THEN complete_base
    ELSE RaiseNegative(divide(complete_base, component_base), component_base,
                       power + 1)

RECURSIVE BaseUnitLoop(_, _, _)
BaseUnitLoop(unit, i, complete_base) ==
    IF i > Len(unit) THEN Ok(complete_base)
    ELSE LET component_base == borrow_unit(unit[i][1]).base_class
             power          == unit[i][2]
         IN IF power = 0 THEN Panic
            ELSE IF power > 0
            THEN BaseUnitLoop(unit, i + 1,
                              RaisePositive(complete_base, component_base, power))
            ELSE BaseUnitLoop(unit, i + 1,
                              RaiseNegative(complete_base, component_base, power))

\* base_unit_of passing over a component of power 0 instead of asserting
base_unit_of_skips_zero(unit) ==
    BaseUnitLoop(SelectSeq(unit, LAMBDA pr : pr[2] # 0), 1, unitless)

base_unit_of(unit) == BaseUnitLoop(unit, 1, unitless)

RECURSIVE RatioLoop(_, _, _)
RatioLoop(unit, i, ratio) ==
    IF i > Len(unit) THEN ratio
    ELSE RatioLoop(unit, i + 1,
                   FMul(ratio, Powi(borrow_unit(unit[i][1]).base_ratio, unit[i][2])))

base_conversion_ratio_of(unit) == RatioLoop(unit, 1, FOne)

\* make_scalar dividing by the ratio instead of multiplying
make_scalar_divides(value, unit, precision) ==
    LET base_unit == base_unit_of(unit)
    IN IF ~base_unit.ok THEN Panic
       ELSE Ok(Scalar_new(FDiv(value, base_conversion_ratio_of(unit)),
                          base_unit.val, unit, precision))

\* the precision handed to Scalar::new
StoredPrecision(precision) == precision

make_scalar(value, unit, precision) ==
    LET base_unit == base_unit_of(unit)
    IN IF ~base_unit.ok THEN Panic
       ELSE Ok(Scalar_new(FMul(value, base_conversion_ratio_of(unit)),
                          base_unit.val, unit, StoredPrecision(precision)))

\* the display value multiplying by the ratio instead of dividing
DisplayValueMultiplies(scalar) ==
    FMul(scalar.base_value, base_conversion_ratio_of(scalar.display_unit))

\* scalar.base_value / ratio: the value in the display unit
DisplayValue(scalar) ==
    FDiv(scalar.base_value, base_conversion_ratio_of(scalar.display_unit))

\* the precision itself as the number of fractional digits
FractionDigitsFull(precision) == precision

\* the number of fractional digits of both rendered values
FractionDigits(precision) == precision - 1

format_scalar_detailed(scalar) ==
    IF ~(scalar.precision > 0) THEN Panic
    ELSE LET unit_text == format_unit(scalar.display_unit)
             base_text == format_base_unit(scalar.base_unit)
             digits    == FractionDigits(scalar.precision)
         IN IF ~unit_text.ok \/ ~base_text.ok THEN Panic
            ELSE Ok(LowerExp(DisplayValue(scalar), digits) \o <<" ">>
                    \o unit_text.val \o <<" ", "(">>
                    \o LowerExp(scalar.base_value, digits) \o <<" ">>
                    \o base_text.val \o <<")">>)

\* an insert that keeps the binding of a symbol already bound
add_global_symbol_keeps_first(symbols, symbol, value) ==
    IF symbols[symbol] # None THEN symbols
    ELSE [symbols EXCEPT ![symbol] = Some(value)]

\* HashMap::insert
add_global_symbol(symbols, symbol, value) ==
    [symbols EXCEPT ![symbol] = Some(value)]

\* HashMap::get
find_global_symbol(symbols, symbol) == symbols[symbol]

(***************************************************************************)
(* The registered items and the inputs of the calls.                       *)
(***************************************************************************)
\* crate::unit::add_default_units: two unit classes ...
DefaultUnitClasses ==
    << [name |-> <<"L", "e", "n", "g", "t", "h">>],
       [name |-> <<"T", "i", "m", "e">>] >>

\* ... and three units: m = Length^1 (ratio 1), ft = Length^1 (ratio 0.3125),
\* St = Length^2 * Time^-1 (ratio 0.125)
DefaultUnits ==
    << [name |-> <<"m">>, base_class |-> << <<1, 1>> >>, base_ratio |-> Flt(1, 0)],
       [name |-> <<"f", "t">>, base_class |-> << <<1, 1>> >>, base_ratio |-> Flt(5, -4)],
       [name |-> <<"S", "t">>, base_class |-> << <<1, 2>>, <<2, -1>> >>,
        base_ratio |-> Flt(1, -3)] >>

\* The exponent maps over the identities ids with at most len components and
\* powers in pows, in every iteration order.
MapsOver(ids, pows, len) ==
    UNION { { c \in [1..n -> ids \X pows] :
                \A i, j \in 1..n : i # j => c[i][1] # c[j][1] } : n \in 0..len }

AllPowers == (-MaxPower)..MaxPower
NonzeroPowers == AllPowers \ {0}

\* CompositeUnits a caller can hand in; `components` is a public field, so a
\* stored power of 0 is possible
UnitInputs == MapsOver(DOMAIN DefaultUnits, AllPowers, MaxComponents)
\* the well-formed ones: every power nonzero
WellFormedUnits == MapsOver(DOMAIN DefaultUnits, NonzeroPowers, MaxComponents)
\* a single unit raised to a nonzero power, or unitless
FactorUnits == MapsOver(DOMAIN DefaultUnits, NonzeroPowers, 1)
\* CompositeUnitClasses a caller can hand in
ClassInputs == MapsOver(DOMAIN DefaultUnitClasses, AllPowers, MaxComponents)

\* 1.0, 5.0, 0.875 and -3.0
ValueInputs == {Flt(1, 0), Flt(5, 0), Flt(7, -3), Flt(-3, 0)}

PrecisionInputs == 0..MaxPrecision

\* Scalars built with Scalar::new directly: any display unit, or any base unit
ScalarInputs ==
    { Scalar_new(v, unitless, u, p) :
        v \in ValueInputs, u \in UnitInputs, p \in PrecisionInputs }
    \cup
    { Scalar_new(v, c, unitless, p) :
        v \in ValueInputs, c \in ClassInputs, p \in PrecisionInputs }

Symbols == {"pi", "x", "y"}

\* Value::Scalar(scalar) and Value::Vector
ValueScalar(scalar) == <<"Scalar", scalar>>
ValueVector == <<"Vector">>

SymbolValues ==
    { ValueScalar(Scalar_new(Flt(3, 0), unitless, unitless, 3)),
      ValueScalar(Scalar_new(Flt(5, 0), << <<1, 1>> >>, << <<1, 1>> >>, 2)),
      ValueVector }

(***************************************************************************)
(* Environment::new()                                                      *)
(***************************************************************************)
\* crate::constants::add_default_symbols: pi
DefaultSymbols ==
    [s \in Symbols |->
        IF s = "pi"
        THEN Some(ValueScalar(Scalar_new(Flt(3, 0), unitless, unitless, 3)))
        ELSE None]

Init ==
    /\ unit_classes = DefaultUnitClasses
    /\ units = DefaultUnits
    /\ global_symbols = DefaultSymbols
    /\ op = "new"
    /\ arg = <<>>
    /\ ret = Ok(<<>>)
    /\ panicked = FALSE
    /\ added = DefaultSymbols

\* No method has been called yet.  The methods of the unit algebra and the
\* formatters take &self and leave the Environment as it is, so a call
\* behaves the same after any other call: a behaviour is one call from here
\* (and format_scalar_detailed of the Scalar that make_scalar returned).
Fresh == op = "new"

\* The call of a method that leaves the Environment as it is.
Call(name, a, r) ==
    /\ ~panicked
    /\ op' = name
    /\ arg' = a
    /\ ret' = r
    /\ panicked' = ~r.ok
    /\ UNCHANGED <<unit_classes, units, global_symbols, added>>

BaseUnitOf ==
    /\ Fresh
    /\ \E unit \in UnitInputs :
        Call("base_unit_of", [unit |-> unit], base_unit_of(unit))

BaseConversionRatioOf ==
    /\ Fresh
    /\ \E unit \in UnitInputs :
        Call("base_conversion_ratio_of", [unit |-> unit],
             Ok(base_conversion_ratio_of(unit)))

MakeScalar ==
    /\ Fresh
    /\ \E value \in ValueInputs, unit \in UnitInputs, precision \in PrecisionInputs :
        Call("make_scalar", [value |-> value, unit |-> unit, precision |-> precision],
             make_scalar(value, unit, precision))

FormatUnit ==
    /\ Fresh
    /\ \E unit \in UnitInputs :
        Call("format_unit", [unit |-> unit], format_unit(unit))

FormatBaseUnit ==
    /\ Fresh
    /\ \E base_unit \in ClassInputs :
        Call("format_base_unit", [base_unit |-> base_unit], format_base_unit(base_unit))

\* format_scalar_detailed of the Scalar that make_scalar has just returned
FormatMadeScalar ==
    /\ op = "make_scalar"
    /\ ret.ok
    /\ Call("format_scalar_detailed", [scalar |-> ret.val, made |-> TRUE, from |-> arg],
            format_scalar_detailed(ret.val))

\* format_scalar_detailed of a Scalar built with Scalar::new
FormatNewScalar ==
    /\ Fresh
    /\ \E scalar \in ScalarInputs :
        Call("format_scalar_detailed", [scalar |-> scalar, made |-> FALSE, from |-> <<>>],
             format_scalar_detailed(scalar))

\* lhs * rhs of two CompositeUnits
UnitMultiply ==
    /\ Fresh
    /\ \E lhs \in WellFormedUnits, rhs \in FactorUnits :
        Call("multiply", [lhs |-> lhs, rhs |-> rhs], Ok(multiply(lhs, rhs)))

\* lhs / rhs of two CompositeUnits
UnitDivide ==
    /\ Fresh
    /\ \E lhs \in FactorUnits, rhs \in WellFormedUnits :
        Call("divide", [lhs |-> lhs, rhs |-> rhs], Ok(divide(lhs, rhs)))

AddGlobalSymbol ==
    \E symbol \in Symbols, value \in SymbolValues :
        /\ ~panicked
        /\ global_symbols' = add_global_symbol(global_symbols, symbol, value)
        /\ added' = [added EXCEPT ![symbol] = Some(value)]
        /\ op' = "add_global_symbol"
        /\ arg' = [symbol |-> symbol, value |-> value]
        /\ ret' = Ok(<<>>)
        /\ UNCHANGED <<unit_classes, units, panicked>>

FindGlobalSymbol ==
    \E symbol \in Symbols :
        Call("find_global_symbol", [symbol |-> symbol],
             Ok(find_global_symbol(global_symbols, symbol)))

\* the unit algebra and the formatters
Next ==
    \/ BaseUnitOf
    \/ BaseConversionRatioOf
    \/ MakeScalar
    \/ FormatUnit
    \/ FormatBaseUnit
    \/ FormatMadeScalar
    \/ FormatNewScalar

Spec == Init /\ [][Next]_vars

\* the composition of units by a caller
NextAlgebra ==
    \/ UnitMultiply
    \/ UnitDivide

SpecAlgebra == Init /\ [][NextAlgebra]_vars

\* the global symbol table
NextSymbols ==
    \/ AddGlobalSymbol
    \/ FindGlobalSymbol

SpecSymbols == Init /\ [][NextSymbols]_vars

(***************************************************************************)
(* Properties.                                                             *)
(***************************************************************************)
\* every stored power is nonzero
WellFormed(a) == \A i \in DOMAIN a : a[i][2] # 0
HasZeroPower(a) == \E i \in DOMAIN a : a[i][2] = 0

\* C1: for a unit with only nonzero powers, make_scalar returns a Scalar
\* whose display_unit is the unit given, whose base_unit is base_unit_of(unit)
\* in the same Environment and whose base_value is
\* value * base_conversion_ratio_of(unit).
C1_MakeScalarFields ==
    (op = "make_scalar" /\ WellFormed(arg.unit)) =>
        /\ ret.ok
        /\ ret.val.display_unit = arg.unit
        /\ base_unit_of(arg.unit).ok
        /\ SameMap(ret.val.base_unit, base_unit_of(arg.unit).val)
        /\ ret.val.base_value = FMul(arg.value, base_conversion_ratio_of(arg.unit))

\* a Scalar made of 0.875 ft^-1 St^2: the ratio is not 1, the base unit has
\* two classes
C1_Witness ==
    /\ op = "make_scalar"
    /\ ret.ok
    /\ arg.unit = << <<2, -1>>, <<3, 2>> >>
    /\ arg.value = Flt(7, -3)
    /\ ret.val.base_value # arg.value
    /\ Len(ret.val.base_unit) = 2

\* C2: base_unit_of is a homomorphism: base_unit_of(u1 * u2) is
\* multiply(base_unit_of(u1), base_unit_of(u2)), base_unit_of(u1 / u2) is
\* divide(base_unit_of(u1), base_unit_of(u2)), so that base_unit_of(u^-1) is
\* divide(unitless(), base_unit_of(u)), and base_unit_of(unitless) is unitless.
C2_Homomorphism ==
    /\ base_unit_of(unitless) = Ok(unitless)
    /\ op = "multiply" =>
        /\ base_unit_of(ret.val).ok
        /\ SameMap(base_unit_of(ret.val).val,
                   multiply(base_unit_of(arg.lhs).val, base_unit_of(arg.rhs).val))
    /\ op = "divide" =>
        /\ base_unit_of(ret.val).ok
        /\ SameMap(base_unit_of(ret.val).val,
                   divide(base_unit_of(arg.lhs).val, base_unit_of(arg.rhs).val))

\* ft^2 St^-1 times St^1: the St component cancels, the product is ft^2
C2_Witness ==
    /\ op = "multiply"
    /\ arg.lhs = << <<2, 2>>, <<3, -1>> >>
    /\ arg.rhs = << <<3, 1>> >>
    /\ ret.val = << <<2, 2>> >>
    /\ base_unit_of(ret.val).val = << <<1, 2>> >>

\* the unit is a single registered unit to the power 1
IsUnitToTheFirst(unit) == Len(unit) = 1 /\ unit[1][2] = 1

\* the base ratio of every component is a power of two, so that no product
\* or quotient of them is rounded
PowerOfTwoRatios(unit) ==
    \A i \in DOMAIN unit : borrow_unit(unit[i][1]).base_ratio.m = Pow2(MantBits - 1)

RECURSIVE Log2Sum(_, _)
\* the sum over the components from i on of power * log2(base_ratio)
Log2Sum(unit, i) ==
    IF i > Len(unit) THEN 0
    ELSE unit[i][2] * (borrow_unit(unit[i][1]).base_ratio.e + MantBits - 1)
         + Log2Sum(unit, i + 1)

\* y is v up to the rounding of one product and one quotient:
\* |y - v| <= 3 * 2^-MantBits * |v|
WithinRounding(y, v) ==
    LET emin == IF y.e < v.e THEN y.e ELSE v.e
        Y    == y.m * Pow2(y.e - emin)
        V    == v.m * Pow2(v.e - emin)
        diff == IF Y < V THEN V - Y ELSE Y - V
    IN /\ y.neg = v.neg
       /\ diff * Pow2(MantBits) <= 3 * V

\* the parts of C3 that hold as stated: the ratio of the unitless unit is 1,
\* the ratio of u^1 is u's base_ratio, the ratio of a unit whose base ratios
\* are powers of two is exactly the product of base_ratio^power, and
\* make_scalar(1, u^1, p).base_value is u's base_ratio
C3_Ratio ==
    /\ op = "base_conversion_ratio_of" =>
        /\ arg.unit = unitless => ret.val = FOne
        /\ IsUnitToTheFirst(arg.unit) =>
               ret.val = borrow_unit(arg.unit[1][1]).base_ratio
        /\ PowerOfTwoRatios(arg.unit) => ret.val = Flt(1, Log2Sum(arg.unit, 1))
    /\ (op = "make_scalar" /\ arg.value = FOne /\ IsUnitToTheFirst(arg.unit)) =>
        ret.val.base_value = borrow_unit(arg.unit[1][1]).base_ratio

\* C3 as stated: C3_Ratio, and the display value that format_scalar_detailed
\* computes for make_scalar(v, unit, p) equals v, for every value v and
\* every well-formed unit.
C3_RoundTripExact ==
    /\ C3_Ratio
    /\ (op = "format_scalar_detailed" /\ arg.made /\ ret.ok) =>
        DisplayValue(arg.scalar) = arg.from.value

\* C3 (amended): C3_Ratio, the display value of make_scalar(1, u^1, p) is
\* exactly 1, and for every value v and every well-formed unit the display
\* value of make_scalar(v, unit, p) is v up to the rounding of the product
\* and of the quotient (a relative error of at most 3 * 2^-MantBits).
C3_RoundTrip ==
    /\ C3_Ratio
    /\ (op = "format_scalar_detailed" /\ arg.made /\ ret.ok) =>
        /\ (arg.from.value = FOne /\ IsUnitToTheFirst(arg.from.unit)) =>
               DisplayValue(arg.scalar) = FOne
        /\ WithinRounding(DisplayValue(arg.scalar), arg.from.value)

\* the Scalar of 0.875 ft^1 has been formatted: its product with the ratio
\* was rounded, and the display value is within rounding of 0.875
C3_Witness ==
    /\ op = "format_scalar_detailed"
    /\ arg.made
    /\ ret.ok
    /\ arg.from.value = Flt(7, -3)
    /\ arg.from.unit = << <<2, 1>> >>
    /\ WithinRounding(DisplayValue(arg.scalar), arg.from.value)

\* C4: find_global_symbol(s) returns the value of the latest
\* add_global_symbol(s, _), and None for a symbol never added; an add
\* changes the binding of its own symbol only; a symbol once found is found
\* ever after.
C4_SymbolTable ==
    /\ [](op = "find_global_symbol" => ret.val = added[arg.symbol])
    /\ [][\A s \in Symbols :
            /\ global_symbols[s] # None => global_symbols'[s] # None
            /\ (op' = "add_global_symbol" /\ arg'.symbol # s) =>
                   global_symbols'[s] = global_symbols[s]
            /\ (op' = "add_global_symbol" /\ arg'.symbol = s) =>
                   global_symbols'[s] = Some(arg'.value)
            /\ op' = "find_global_symbol" =>
                   global_symbols'[s] = global_symbols[s]]_vars

\* pi, rebound to Vector after two other adds, is found with its latest
\* value, and y, never added, is not found
C4_Witness ==
    /\ op = "find_global_symbol"
    /\ arg.symbol = "pi"
    /\ ret.val = Some(ValueVector)
    /\ global_symbols["x"] # None
    /\ global_symbols["y"] = None

\* C5: a component with power 0 is fatal: base_unit_of, format_unit and
\* make_scalar of a unit with a zero power, format_base_unit of a class with
\* a zero power and format_scalar_detailed of a Scalar whose display_unit or
\* base_unit has a zero power all fail fatally.
C5_ZeroPowerFatal ==
    /\ (op \in {"base_unit_of", "format_unit", "make_scalar"}
        /\ HasZeroPower(arg.unit)) => (~ret.ok /\ panicked)
    /\ (op = "format_base_unit" /\ HasZeroPower(arg.base_unit)) =>
        (~ret.ok /\ panicked)
    /\ (op = "format_scalar_detailed"
        /\ (HasZeroPower(arg.scalar.display_unit)
            \/ HasZeroPower(arg.scalar.base_unit))) => (~ret.ok /\ panicked)

\* format_scalar_detailed has failed on a Scalar of precision 3 whose
\* display unit is m^1 ft^0
C5_Witness ==
    /\ op = "format_scalar_detailed"
    /\ arg.scalar.precision = 3
    /\ arg.scalar.display_unit = << <<1, 1>>, <<2, 0>> >>
    /\ ~ret.ok
    /\ panicked

\* the first index of the character ch in the text s (Len(s) + 1 if none)
IndexOf(s, ch) ==
    IF \E i \in DOMAIN s : s[i] = ch
    THEN CHOOSE i \in DOMAIN s : s[i] = ch /\ \A j \in 1..(i - 1) : s[j] # ch
    ELSE Len(s) + 1

\* the text up to the first space
FirstToken(s) == SubSeq(s, 1, IndexOf(s, " ") - 1)

\* the first rendered value of "<value> <unit> (<value> <base unit>)"
DisplayToken(s) == FirstToken(s)
\* the second: what follows the opening parenthesis
BaseToken(s) == FirstToken(SubSeq(s, IndexOf(s, "(") + 1, Len(s)))

DigitSet == {Digits[i] : i \in DOMAIN Digits}

\* the rendered value t is in scientific notation with exactly n fractional
\* digits: [-]d[.d...d]e[-]d...
HasFractionDigits(t, n) ==
    LET u  == IF t # <<>> /\ t[1] = "-" THEN Tail(t) ELSE t
        ie == IndexOf(u, "e")
        x  == SubSeq(u, ie + 1, Len(u))
        xd == IF x # <<>> /\ x[1] = "-" THEN Tail(x) ELSE x
    IN /\ ie <= Len(u)
       /\ u[1] \in DigitSet
       /\ IF n = 0 THEN ie = 2
          ELSE /\ ie = n + 3
               /\ u[2] = "."
               /\ \A i \in 3..(n + 2) : u[i] \in DigitSet
       /\ xd # <<>>
       /\ \A i \in DOMAIN xd : xd[i] \in DigitSet

C7_MakeScalarPrecision ==
    /\ (op = "make_scalar" /\ ret.ok) => ret.val.precision >= 1
    /\ (op = "format_scalar_detailed" /\ arg.made) => ret.ok

\* C8: two CompositeUnits with the same components (the same units with the
\* same nonzero powers), in whatever order they are iterated, are formatted
\* by format_unit as the same text.
C8_FormatDeterminism ==
    (op = "format_unit" /\ ret.ok) =>
        \A other \in WellFormedUnits :
            SameMap(other, arg.unit) => format_unit(other) = ret

RECURSIVE ExponentSum(_, _, _)
\* the sum over the components from i on of power * (the exponent of class
\* in the component's base_class)
ExponentSum(unit, class, i) ==
    IF i > Len(unit) THEN 0
    ELSE unit[i][2] * Exponent(borrow_unit(unit[i][1]).base_class, class)
         + ExponentSum(unit, class, i + 1)

\* C9: for a unit with nonzero powers base_unit_of returns the map in which
\* every class has the sum over the components of power times the class's
\* exponent in the component's base_class, and holds no entry for a class
\* whose sum is 0.
C9_BaseUnitOf ==
    (op = "base_unit_of" /\ WellFormed(arg.unit)) =>
        /\ ret.ok
        /\ \A i, j \in DOMAIN ret.val : i # j => ret.val[i][1] # ret.val[j][1]
        /\ \A i \in DOMAIN ret.val :
               ret.val[i][1] \in DOMAIN unit_classes /\ ret.val[i][2] # 0
        /\ \A class \in DOMAIN unit_classes :
               /\ Exponent(ret.val, class) = ExponentSum(arg.unit, class, 1)
               /\ class \in Keys(ret.val) <=> ExponentSum(arg.unit, class, 1) # 0

\* ft^2 St^-1: Length^2 cancels, Time^1 is left
C9_Witness ==
    /\ op = "base_unit_of"
    /\ arg.unit = << <<2, 2>>, <<3, -1>> >>
    /\ ret = Ok(<< <<2, 1>> >>)
    /\ ExponentSum(arg.unit, 1, 1) = 0

RECURSIVE Terms(_, _, _)
\* the terms "<name>^<|power|>" of the components whose power has the sign
\* sgn, concatenated in order
Terms(components, names, sgn) ==
    IF components = <<>> THEN <<>>
    ELSE LET id    == Head(components)[1]
             power == Head(components)[2]
         IN (IF power * sgn > 0
             THEN names[id] \o <<"^">> \o NatStr(power * sgn)
             ELSE <<>>)
            \o Terms(Tail(components), names, sgn)

\* the number of occurrences of the character ch in the text s
Count(s, ch) == Cardinality({i \in DOMAIN s : s[i] = ch})

\* text is numerator \o " / " \o denominator for these components
IsFraction(text, components, names) ==
    /\ text = Terms(components, names, 1) \o <<" ", "/", " ">>
              \o Terms(components, names, -1)
    /\ Count(text, "^") = Len(components)
    /\ Count(text, "-") = 0
    /\ components = <<>> => text = <<" ", "/", " ">>

\* C10: format_base_unit and format_unit return numerator \o " / " \o
\* denominator: a component of positive power is "<name>^<power>" in the
\* numerator, one of negative power "<name>^<|power|>" in the denominator,
\* each once and in iteration order; the separator is there even when a
\* side is empty.
C10_Fraction ==
    /\ (op = "format_base_unit" /\ WellFormed(arg.base_unit)) =>
        (ret.ok /\ IsFraction(ret.val, arg.base_unit, ClassNames))
    /\ (op = "format_unit" /\ WellFormed(arg.unit)) =>
        (ret.ok /\ IsFraction(ret.val, arg.unit, UnitNames))

\* Scenario 3: Length^1 Time^-1 renders as "Length^1 / Time^1"
C10_Witness ==
    /\ op = "format_base_unit"
    /\ arg.base_unit = << <<1, 1>>, <<2, -1>> >>
    /\ ret.val = <<"L", "e", "n", "g", "t", "h", "^", "1", " ", "/", " ",
                   "T", "i", "m", "e", "^", "1">>

=============================================================================
